---- MODULE Spec2Model ----
(***************************************************************************)
(* Model of the call-record service in src/app.py: a Flask application     *)
(* with four routes over one SQLite table `calls`.                          *)
(*                                                                         *)
(* The table is a set of rows keyed by id (INTEGER PRIMARY KEY, i.e. the   *)
(* rowid).  Every SQL statement of the source is an operator on the table; *)
(* every handler is one action, except update_call and delete_call, whose  *)
(* SELECT and whose UPDATE/DELETE + commit are two statements on the       *)
(* connection and therefore two steps that other requests may interleave   *)
(* with.  close_db, the teardown, is the last step of every request.       *)
(*                                                                         *)
(* Spec     : one request at a time (a single server thread).              *)
(* SpecConc : two server threads handling requests concurrently.           *)
(***************************************************************************)
EXTENDS Integers, Sequences, FiniteSets, TLC

\* ---------------------------------------------------------------- bounds
\* Number of rows inserted in a run (also the range of the clock).
MaxCreates == 3
\* Largest `page` and `page_size` query parameters tried.
MaxPage == 2
MaxPageSize == 2

\* ---------------------------------------------------------------- values
\* Python's None: a JSON null, a missing JSON key, a missing query parameter.
None == "None"
\* Numbers a client sends in a JSON body; "" is the empty string.
Text == {"", "A"}
JsonValues == Text \cup {None}
\* The `phone` query parameter: those, and a number no record holds.
PhoneValues == JsonValues \cup {"B"}
\* Ids a client names in the URL: every id the table can hold and one more.
Ids == 1..(MaxCreates + 1)
Pages == 1..MaxPage
PageSizes == 1..MaxPageSize
Threads == {1, 2}

VARIABLES
    calls,      \* the table: a set of rows [id, from_number, to_number, start_time]
    now,        \* the clock datetime.now() reads
    pc,         \* per thread: where its request stands
    req,        \* per thread: the request being handled
    row,        \* per thread: what the existence check fetched
    g,          \* per thread: the request context g, and the connects made for it
    rowcount,   \* per thread: rows changed by the request's last statement
    resp,       \* per thread: the outcome of the request
    pre,        \* history: the table when the request arrived
    assigned,   \* history: ids given to inserted rows, in insertion order
    deleted     \* history: ids whose delete_call reported success

vars == <<calls, now, pc, req, row, g, rowcount, resp, pre, assigned, deleted>>

\* ---------------------------------------------------------------- the store
Max(S) == CHOOSE x \in S : \A y \in S : y <= x

\* The rowid SQLite gives a row inserted without an id into a table whose
\* key is INTEGER PRIMARY KEY (no AUTOINCREMENT): one more than the largest
\* rowid now in the table, 1 for an empty table.
NextRowid(tbl) == IF tbl = {} THEN 1 ELSE Max({r.id : r \in tbl}) + 1

\* (variant) a schema whose to_number column lacks NOT NULL
NotNullFromOnly(r) == r.from_number # None

\* from_number TEXT NOT NULL, to_number TEXT NOT NULL: whether a row satisfies
\* the column constraints.  (start_time is always an isoformat() string.)
NotNull(r) == r.from_number # None /\ r.to_number # None

\* (variant) a schema that states no constraint
IntegrityErrorNever(tbl) == FALSE

\* A statement that would leave such a row raises sqlite3.IntegrityError and
\* changes nothing.
IntegrityError(tbl) == \E r \in tbl : ~NotNull(r)

\* INSERT INTO calls (from_number, to_number, start_time) VALUES (?, ?, ?)
Insert(tbl, f, t, s) ==
    tbl \cup {[id |-> NextRowid(tbl), from_number |-> f, to_number |-> t, start_time |-> s]}

\* SELECT * FROM calls WHERE id = ?  with fetchone(): <<the row>>, or <<>> for
\* Python's None.
SelectById(tbl, id) ==
    IF \E r \in tbl : r.id = id THEN <<CHOOSE r \in tbl : r.id = id>> ELSE <<>>

\* (variant) the UPDATE without its WHERE clause
UpdateEveryRow(tbl, id, f, t) ==
    {[r EXCEPT !.from_number = f, !.to_number = t] : r \in tbl}

\* UPDATE calls SET from_number = ?, to_number = ? WHERE id = ?
Update(tbl, id, f, t) ==
    {IF r.id = id THEN [r EXCEPT !.from_number = f, !.to_number = t] ELSE r : r \in tbl}

\* DELETE FROM calls WHERE id = ?
Delete(tbl, id) == {r \in tbl : r.id # id}

\* The rows a statement with WHERE id = ? touches.
Rowcount(tbl, id) == Cardinality({r \in tbl : r.id = id})

\* The rows of a set in rowid order: the order of a table scan.
RECURSIVE ByRowid(_)
ByRowid(S) ==
    IF S = {} THEN <<>>
    ELSE LET m == CHOOSE r \in S : \A q \in S : r.id <= q.id
         IN <<m>> \o ByRowid(S \ {m})

\* SELECT id, from_number, to_number, start_time FROM calls
\*   WHERE from_number = ? OR to_number = ?      with fetchall()
SelectByPhone(tbl, phone) ==
    ByRowid({r \in tbl : r.from_number = phone \/ r.to_number = phone})

\* (variant) a slice that starts and ends one row late: rows[start+1:end+1]
SliceOneLate(rows, start, end) ==
    LET hi == IF end + 1 < Len(rows) THEN end + 1 ELSE Len(rows)
    IN [i \in 1..(IF hi > start + 1 THEN hi - start - 1 ELSE 0) |-> rows[start + 1 + i]]

\* Python's rows[start:end] for 0 <= start <= end.
Slice(rows, start, end) ==
    LET hi == IF end < Len(rows) THEN end ELSE Len(rows)
    IN [i \in 1..(IF hi > start THEN hi - start ELSE 0) |-> rows[start + i]]

\* Python's `not phone`: None and the empty string are falsy.
Falsy(v) == v = None \/ v = ""

\* ---------------------------------------------------------------- requests
NoReq == [op |-> "none", id |-> 0, from_number |-> None, to_number |-> None,
          phone |-> None, page |-> 0, page_size |-> 0]
NoResp == [status |-> 0, body |-> "none", data |-> <<>>]

\* jsonify(...) and its status code; data is the "data" list of a report.
Response(status, body, data) == [status |-> status, body |-> body, data |-> data]

\* An exception that leaves the view function: Flask answers 500 itself.
Unhandled == Response(500, "unhandled_exception", <<>>)

\* The request context of a request that has just arrived.
FreshG == [db |-> "absent", connects |-> 0]

\* get_db(): connect when g has no db, else the connection g holds.
GetDb(ctx) ==
    IF ctx.db = "absent" THEN [db |-> "open", connects |-> ctx.connects + 1] ELSE ctx

Init ==
    /\ calls = {}
    /\ now = 0
    /\ pc = [w \in Threads |-> "idle"]
    /\ req = [w \in Threads |-> NoReq]
    /\ row = [w \in Threads |-> <<>>]
    /\ g = [w \in Threads |-> FreshG]
    /\ rowcount = [w \in Threads |-> 0]
    /\ resp = [w \in Threads |-> NoResp]
    /\ pre = [w \in Threads |-> {}]
    /\ assigned = <<>>
    /\ deleted = {}

\* A request arrives at thread w.
Arrive(w, r) ==
    /\ pc[w] = "idle"
    /\ req' = [req EXCEPT ![w] = r]
    /\ pre' = [pre EXCEPT ![w] = calls]

\* The view function returns (or raises); teardown is what remains.
Return(w, response) ==
    /\ resp' = [resp EXCEPT ![w] = response]
    /\ pc' = [pc EXCEPT ![w] = "teardown"]

\* POST /initiate-call.  start_time is datetime.now().isoformat(); the clock
\* is counted in inserts, so every stored row has a later stamp than the rows
\* before it.
InitiateCall(w, f, t) ==
    /\ now < MaxCreates
    /\ Arrive(w, [NoReq EXCEPT !.op = "create", !.from_number = f, !.to_number = t])
    /\ g' = [g EXCEPT ![w] = GetDb(FreshG)]
    /\ LET start_time == now + 1
           new == Insert(calls, f, t, start_time)
       IN IF IntegrityError(new)
          THEN \* except sqlite3.IntegrityError
               /\ UNCHANGED <<calls, now, assigned>>
               /\ rowcount' = [rowcount EXCEPT ![w] = 0]
               /\ Return(w, Response(500, "input_not_valid", <<>>))
          ELSE /\ calls' = new
               /\ now' = start_time
               /\ assigned' = Append(assigned, NextRowid(calls))
               /\ rowcount' = [rowcount EXCEPT ![w] = 1]
               /\ Return(w, Response(200, "success", <<>>))
    /\ UNCHANGED <<row, deleted>>

\* GET /call-report
GetCallReport(w, phone, page, page_size) ==
    /\ Arrive(w, [NoReq EXCEPT !.op = "report", !.phone = phone,
                               !.page = page, !.page_size = page_size])
    /\ IF Falsy(phone)
       THEN /\ g' = [g EXCEPT ![w] = FreshG]
            /\ Return(w, Response(500, "provide_phone", <<>>))
       ELSE /\ g' = [g EXCEPT ![w] = GetDb(FreshG)]
            /\ LET rows == SelectByPhone(calls, phone)
                   start_index == (page - 1) * page_size
                   end_index == start_index + page_size
                   paginated_calls == Slice(rows, start_index, end_index)
               IN IF paginated_calls = <<>>
                  THEN Return(w, Response(500, "phone_not_valid", <<>>))
                  ELSE Return(w, Response(200, "success", paginated_calls))
    /\ rowcount' = [rowcount EXCEPT ![w] = 0]
    /\ UNCHANGED <<calls, now, row, assigned, deleted>>

\* PUT /update-call/<id>: up to the existence check.
UpdateCallSelect(w, id, f, t) ==
    /\ Arrive(w, [NoReq EXCEPT !.op = "update", !.id = id,
                               !.from_number = f, !.to_number = t])
    /\ g' = [g EXCEPT ![w] = GetDb(FreshG)]
    /\ row' = [row EXCEPT ![w] = SelectById(calls, id)]
    /\ rowcount' = [rowcount EXCEPT ![w] = 0]
    /\ IF row'[w] = <<>>
       THEN Return(w, Response(404, "not_found", <<>>))
       ELSE /\ pc' = [pc EXCEPT ![w] = "update_write"]
            /\ resp' = [resp EXCEPT ![w] = NoResp]
    /\ UNCHANGED <<calls, now, assigned, deleted>>

\* PUT /update-call/<id>: the UPDATE and the commit.
UpdateCallWrite(w) ==
    /\ pc[w] = "update_write"
    /\ LET new == Update(calls, req[w].id, req[w].from_number, req[w].to_number) IN
       IF IntegrityError(new)
       THEN \* nothing catches it
            /\ UNCHANGED <<calls, rowcount>>
            /\ Return(w, Unhandled)
       ELSE /\ calls' = new
            /\ rowcount' = [rowcount EXCEPT ![w] = Rowcount(calls, req[w].id)]
            /\ Return(w, Response(200, "updated", <<>>))
    /\ UNCHANGED <<now, req, row, g, pre, assigned, deleted>>

\* DELETE /delete-call/<id>: up to the existence check.
DeleteCallSelect(w, id) ==
    /\ Arrive(w, [NoReq EXCEPT !.op = "delete", !.id = id])
    /\ g' = [g EXCEPT ![w] = GetDb(FreshG)]
    /\ row' = [row EXCEPT ![w] = SelectById(calls, id)]
    /\ rowcount' = [rowcount EXCEPT ![w] = 0]
    /\ IF row'[w] = <<>>
       THEN Return(w, Response(404, "not_found", <<>>))
       ELSE /\ pc' = [pc EXCEPT ![w] = "delete_write"]
            /\ resp' = [resp EXCEPT ![w] = NoResp]
    /\ UNCHANGED <<calls, now, assigned, deleted>>

\* DELETE /delete-call/<id>: the DELETE and the commit.
DeleteCallWrite(w) ==
    /\ pc[w] = "delete_write"
    /\ calls' = Delete(calls, req[w].id)
    /\ rowcount' = [rowcount EXCEPT ![w] = Rowcount(calls, req[w].id)]
    /\ deleted' = deleted \cup {req[w].id}
    /\ Return(w, Response(200, "deleted", <<>>))
    /\ UNCHANGED <<now, req, row, g, pre, assigned>>

\* (variant) a teardown that closes the connection only after a 200 answer
CloseDbOnSuccess(w) ==
    /\ pc[w] = "teardown"
    /\ g' = [g EXCEPT ![w] = IF @.db = "open" /\ resp[w].status = 200
                              THEN [@ EXCEPT !.db = "closed"] ELSE @]
    /\ pc' = [pc EXCEPT ![w] = "idle"]
    /\ req' = [req EXCEPT ![w] = NoReq]
    /\ row' = [row EXCEPT ![w] = <<>>]
    /\ rowcount' = [rowcount EXCEPT ![w] = 0]
    /\ resp' = [resp EXCEPT ![w].data = <<>>]
    /\ pre' = [pre EXCEPT ![w] = {}]
    /\ UNCHANGED <<calls, now, assigned, deleted>>

\* @app.teardown_appcontext close_db: runs when the request ends, whatever
\* its outcome; the response has gone out and the context is dropped.
CloseDb(w) ==
    /\ pc[w] = "teardown"
    /\ g' = [g EXCEPT ![w] = IF @.db = "open" THEN [@ EXCEPT !.db = "closed"] ELSE @]
    /\ pc' = [pc EXCEPT ![w] = "idle"]
    /\ req' = [req EXCEPT ![w] = NoReq]
    /\ row' = [row EXCEPT ![w] = <<>>]
    /\ rowcount' = [rowcount EXCEPT ![w] = 0]
    /\ resp' = [resp EXCEPT ![w].data = <<>>]
    /\ pre' = [pre EXCEPT ![w] = {}]
    /\ UNCHANGED <<calls, now, assigned, deleted>>

\* ---------------------------------------------------------------- specifications
\* One server thread: requests are handled one after the other.
Next ==
    \/ \E f, t \in JsonValues : InitiateCall(1, f, t)
    \/ \E phone \in PhoneValues, page \in Pages, page_size \in PageSizes :
          GetCallReport(1, phone, page, page_size)
    \/ \E id \in Ids, f, t \in JsonValues : UpdateCallSelect(1, id, f, t)
    \/ UpdateCallWrite(1)
    \/ \E id \in Ids : DeleteCallSelect(1, id)
    \/ DeleteCallWrite(1)
    \/ CloseDb(1)

Spec == Init /\ [][Next]_vars

\* Two server threads: the statements of two requests interleave.  What this
\* specification explores is the interleavings, so the values are fewer.
ConcValues == {"A", None}
ConcIds == {1, 2}
NextConc ==
    \/ \E w \in Threads, f, t \in ConcValues : InitiateCall(w, f, t)
    \/ \E w \in Threads, page \in Pages, page_size \in PageSizes :
          GetCallReport(w, "A", page, page_size)
    \/ \E w \in Threads, id \in ConcIds, f, t \in ConcValues : UpdateCallSelect(w, id, f, t)
    \/ \E w \in Threads : UpdateCallWrite(w)
    \/ \E w \in Threads, id \in ConcIds : DeleteCallSelect(w, id)
    \/ \E w \in Threads : DeleteCallWrite(w)
    \/ \E w \in Threads : CloseDb(w)

SpecConc == Init /\ [][NextConc]_vars

\* ---------------------------------------------------------------- properties
\* Thread w has produced the answer to a request of kind op; only the
\* teardown remains.
Done(w, op) == pc[w] = "teardown" /\ req[w].op = op

\* {"success": False, ...} with status 500
Failure(r) == r.status = 500 /\ r.body \in {"provide_phone", "phone_not_valid"}

\* The place of the live row `id` in the order of insertion: the index of the
\* latest insert that was given this id.
InsertionRank(id) == Max({i \in 1..Len(assigned) : assigned[i] = id})

\* The rows of S, earliest inserted first.
RECURSIVE InInsertionOrder(_)
InInsertionOrder(S) ==
    IF S = {} THEN <<>>
    ELSE LET m == CHOOSE r \in S :
                     \A q \in S : InsertionRank(r.id) <= InsertionRank(q.id)
         IN <<m>> \o InInsertionOrder(S \ {m})

\* The records at positions [(p-1)*k, p*k) of a sequence (positions from 0).
Window(seq, p, k) ==
    LET n == Cardinality({j \in ((p - 1) * k)..(p * k - 1) : j < Len(seq)})
    IN [i \in 1..n |-> seq[(p - 1) * k + i]]

\* The window a report request of thread w asks for.
AskedWindow(w) ==
    Window(InInsertionOrder({r \in calls : r.from_number = req[w].phone
                                           \/ r.to_number = req[w].phone}),
           req[w].page, req[w].page_size)

\* C1 (as stated): a successful create adds exactly one record, with the given
\* from_number and to_number, whose id was never assigned to an earlier record,
\* deleted ones included.
C1_CreateAssignsUnusedId ==
    \A w \in Threads :
        (Done(w, "create") /\ resp[w].status = 200) =>
            \E r \in calls :
                /\ r \notin pre[w]
                /\ calls = pre[w] \cup {r}
                /\ r.from_number = req[w].from_number
                /\ r.to_number = req[w].to_number
                /\ \A i \in 1..(Len(assigned) - 1) : assigned[i] # r.id

\* C2 (as stated): for every phone, page p >= 1 and size k >= 1 the report is
\* exactly the window [(p-1)*k, p*k) of the matching records in insertion
\* order, and it fails (500, success false) exactly when that window is empty.
C2_ReportIsWindowForEveryPhone ==
    \A w \in Threads :
        (Done(w, "report") /\ req[w].phone # None) =>
            /\ resp[w].data = AskedWindow(w)
            /\ Failure(resp[w]) <=> (AskedWindow(w) = <<>>)

\* C2 (amended): the same for every non-empty phone; for an empty phone the
\* report fails (500, success false) whatever the table holds.
C2_ReportIsWindow ==
    \A w \in Threads :
        Done(w, "report") =>
            IF req[w].phone \in {None, ""}
            THEN Failure(resp[w]) /\ resp[w].data = <<>>
            ELSE /\ resp[w].data = AskedWindow(w)
                 /\ Failure(resp[w]) <=> (AskedWindow(w) = <<>>)
                 /\ ~Failure(resp[w]) => resp[w].status = 200

\* C2 witness: the second page of size 2 of three matching records: a window
\* cut short by the end of the matching records.
C2_Witness ==
    \E w \in Threads :
        /\ Done(w, "report")
        /\ req[w].page = 2 /\ req[w].page_size = 2
        /\ Len(resp[w].data) = 1

\* What update_call must leave of the table `before` after setting the record
\* `id` to (f, t): that record with the new numbers and its old id and
\* start_time, every other record as it was.
UpdatedTo(before, id, f, t, after) ==
    /\ Cardinality(after) = Cardinality(before)
    /\ \A r \in before : r.id # id => r \in after
    /\ \A r \in before :
          r.id = id => \E q \in after : /\ q.id = id
                                        /\ q.start_time = r.start_time
                                        /\ q.from_number = f
                                        /\ q.to_number = t

\* C3 (as stated): update on an existing id sets the record's numbers to the
\* given values and changes nothing else; on a missing id it answers 404 and
\* leaves the table unchanged.
C3_UpdateSetsGivenValues ==
    \A w \in Threads :
        Done(w, "update") =>
            IF \E r \in pre[w] : r.id = req[w].id
            THEN UpdatedTo(pre[w], req[w].id, req[w].from_number, req[w].to_number, calls)
            ELSE resp[w].status = 404 /\ calls = pre[w]

\* C3 (amended): update on an existing id with non-null values sets the
\* record's numbers to them and changes nothing else; with a null value it
\* reports no success and leaves the table unchanged; on a missing id it
\* answers 404 and leaves the table unchanged.
C3_UpdateFrame ==
    \A w \in Threads :
        Done(w, "update") =>
            IF \E r \in pre[w] : r.id = req[w].id
            THEN IF req[w].from_number # None /\ req[w].to_number # None
                 THEN /\ UpdatedTo(pre[w], req[w].id, req[w].from_number,
                                   req[w].to_number, calls)
                      /\ resp[w].status = 200
                 ELSE calls = pre[w] /\ resp[w].status # 200
            ELSE resp[w].status = 404 /\ resp[w].body = "not_found" /\ calls = pre[w]

\* C3 witness: an update that changed one of several records.
C3_Witness ==
    \E w \in Threads :
        /\ Done(w, "update")
        /\ resp[w].status = 200
        /\ calls # pre[w]
        /\ Cardinality(calls) >= 2

\* C4 (as stated): once delete_call has succeeded on an id, no later report
\* returns a record with that id; delete on a missing id answers 404 and
\* removes nothing.
C4_DeletedIdNeverReported ==
    \A w \in Threads :
        /\ Done(w, "report") =>
              \A i \in 1..Len(resp[w].data) : resp[w].data[i].id \notin deleted
        /\ (Done(w, "delete") /\ ~\E r \in pre[w] : r.id = req[w].id) =>
              resp[w].status = 404 /\ calls = pre[w]

\* C5: create with a null from_number or to_number answers 500 with the error
\* payload and leaves the table as it was.
C5_NullCreateRejected ==
    \A w \in Threads :
        (Done(w, "create") /\ (req[w].from_number = None \/ req[w].to_number = None)) =>
            /\ resp[w].status = 500
            /\ resp[w].body = "input_not_valid"
            /\ calls = pre[w]

\* C5 witness: such a create, made on a table that holds records.
C5_Witness ==
    \E w \in Threads :
        /\ Done(w, "create")
        /\ req[w].to_number = None
        /\ req[w].from_number # None
        /\ calls # {}

\* C6: in every reachable state every stored record has a non-null
\* from_number and a non-null to_number.
C6_NoNullNumbers ==
    \A r \in calls : r.from_number # None /\ r.to_number # None

\* C6 witness: an update with a null number has been run on an existing record.
C6_Witness ==
    \E w \in Threads :
        /\ Done(w, "update")
        /\ req[w].from_number = None
        /\ \E r \in calls : r.id = req[w].id

\* C7 (as stated): an update or delete that reports success changed a row that
\* existed when it wrote, and two concurrent deletes of the same record do not
\* both report success.
C7_CheckAndWriteAtomic ==
    /\ \A w \in Threads :
          (pc[w] = "teardown" /\ resp[w].body \in {"updated", "deleted"}) =>
              rowcount[w] = 1
    /\ ~ \E v, w \in Threads :
          /\ v # w
          /\ Done(v, "delete") /\ Done(w, "delete")
          /\ resp[v].body = "deleted" /\ resp[w].body = "deleted"
          /\ row[v] # <<>> /\ row[w] # <<>>
          /\ row[v][1].id = row[w][1].id
          /\ row[v][1].start_time = row[w][1].start_time

\* C8 (as stated): no request ends in an exception that leaves its handler.
C8_NoEscapingException ==
    \A w \in Threads : resp[w].body # "unhandled_exception"

\* C9: a request opens at most one connection, and once the request has ended
\* the connection it opened is closed.
C9_ConnectionClosed ==
    \A w \in Threads :
        /\ g[w].connects <= 1
        /\ pc[w] = "idle" => g[w].db # "open"

\* C9 witness: a request that ended in an exception, its connection closed.
C9_Witness ==
    \E w \in Threads :
        /\ pc[w] = "idle"
        /\ resp[w].body = "unhandled_exception"
        /\ g[w].db = "closed"
        /\ g[w].connects = 1

\* C10 (as stated): create with an empty from_number or to_number adds no row.
C10_EmptyCreateAddsNoRow ==
    \A w \in Threads :
        (Done(w, "create") /\ (req[w].from_number = "" \/ req[w].to_number = "")) =>
            calls = pre[w]
====
